---- MODULE Spec2Model ----
(***************************************************************************)
(* Model of the ASPEED AST2600 PWM/tachometer hwmon driver                 *)
(* (drivers/hwmon/aspeed-g6-pwm-tacho.c) and of the write path of the      *)
(* ASPEED ADC IIO driver (drivers/iio/adc/aspeed_adc.c).                   *)
(*                                                                         *)
(* The SoC is a 32-bit ARM: unsigned long, u32 and int are 32 bits wide.   *)
(* TLC's integers stop at 2^31-1, so a 32-bit word is kept as a pair       *)
(* <<hi, lo>> of 16-bit halves (value hi * 2^16 + lo); intermediate        *)
(* results let hi grow beyond 16 bits until U32 truncates them.            *)
(***************************************************************************)
EXTENDS Integers, Sequences, FiniteSets, TLC

\* ------------------------------------------------------------ bounds
\* longest "cooling-levels" table of the device description
MaxLevels == 2
\* longest sysfs write (bytes) handed to set_pwm
MaxCount == 2

\* ------------------------------------------------- 32-bit words
HALF == 2 ^ 16

\* a natural below 2^31 as a word
W(n) == <<n \div HALF, n % HALF>>

\* carry the low half into the high half
WNorm(h, l) == <<h + (l \div HALF), l % HALF>>

\* truncation to 32 bits
U32(w) == <<w[1] % HALF, w[2]>>

WAdd(a, b) == WNorm(a[1] + b[1], a[2] + b[2])

\* a - b for a >= b
WSub(a, b) ==
  IF a[2] >= b[2] THEN <<a[1] - b[1], a[2] - b[2]>>
  ELSE <<a[1] - b[1] - 1, a[2] + HALF - b[2]>>

WLess(a, b) == a[1] < b[1] \/ (a[1] = b[1] /\ a[2] < b[2])

WGeq(a, b) == ~WLess(a, b)

\* w * k for a small factor k (k <= 2^14), not truncated
WMulSmall(w, k) == WNorm(w[1] * k, w[2] * k)

\* u32 * u32 -> u32: the product modulo 2^32, byte by byte of the right factor
MulU32(a, b) ==
  LET b0 == b[2] % 256
      b1 == b[2] \div 256
      b2 == b[1] % 256
      b3 == b[1] \div 256
      Shl8(x) == U32(WMulSmall(x, 256))
      p0 == U32(WMulSmall(a, b0))
      p1 == Shl8(U32(WMulSmall(a, b1)))
      p2 == Shl8(Shl8(U32(WMulSmall(a, b2))))
      p3 == Shl8(Shl8(Shl8(U32(WMulSmall(a, b3)))))
  IN U32(WAdd(WAdd(p0, p1), WAdd(p2, p3)))

\* hex digit i (0..7) of a word
WNibble(w, i) == IF i >= 4 THEN (w[1] \div (16 ^ (i - 4))) % 16 ELSE (w[2] \div (16 ^ i)) % 16

RECURSIVE DivStep(_, _, _, _, _)
\* long division in base 16, from digit i down to digit 0
DivStep(a, d, i, q, r) ==
  IF i < 0 THEN q
  ELSE LET r2 == WAdd(WMulSmall(r, 16), <<0, WNibble(a, i)>>)
           k == CHOOSE c \in 0 .. 15 :
                  /\ WGeq(r2, WMulSmall(d, c))
                  /\ WLess(r2, WMulSmall(d, c + 1))
       IN DivStep(a, d, i - 1, WAdd(WMulSmall(q, 16), <<0, k>>), WSub(r2, WMulSmall(d, k)))

\* u32 / u32 for a nonzero divisor
DivU32(a, d) ==
  IF d[1] = 0 /\ d[2] < 32768
  THEN LET r1 == a[1] % d[2]
       IN <<a[1] \div d[2], (r1 * HALF + a[2]) \div d[2]>>
  ELSE DivStep(a, d, 7, <<0, 0>>, <<0, 0>>)

\* the value of a word as int (two's complement)
ToInt(w) == IF w[1] >= 32768 THEN (w[1] - HALF) * HALF + w[2] ELSE w[1] * HALF + w[2]

RECURSIVE BitAnd(_, _)
BitAnd(a, b) ==
  IF a = 0 \/ b = 0 THEN 0 ELSE (a % 2) * (b % 2) + 2 * BitAnd(a \div 2, b \div 2)

RECURSIVE BitOr(_, _)
BitOr(a, b) ==
  IF a = 0 THEN b
  ELSE IF b = 0 THEN a
  ELSE (IF a % 2 = 1 \/ b % 2 = 1 THEN 1 ELSE 0) + 2 * BitOr(a \div 2, b \div 2)

And32(a, b) == <<BitAnd(a[1], b[1]), BitAnd(a[2], b[2])>>
Or32(a, b) == <<BitOr(a[1], b[1]), BitOr(a[2], b[2])>>
Not32(a) == <<HALF - 1 - a[1], HALF - 1 - a[2]>>

\* BIT(n) as a number (n <= 30) and as a register mask (n <= 31)
BIT(n) == 2 ^ n
BITW(n) == IF n >= 16 THEN <<2 ^ (n - 16), 0>> ELSE <<0, 2 ^ n>>

\* x << n on a word for a value x below 2^16, truncated to 32 bits
ShlW(x, n) == IF n >= 16 THEN <<(x * (2 ^ (n - 16))) % HALF, 0>> ELSE U32(WNorm(0, x * (2 ^ n)))

\* ------------------------------------------------- program constants
PWM_CLK_ENABLE == BITW(16)
PWM_PIN_EN == BITW(12)
PWM_LOAD_AS_WDT == BITW(19)
PWM_DUTY_LOAD_AS_WDT_EN == BITW(18)
PWM_PERIOD_BIT == 24
PWM_RISING_FALLING_AS_WDT_BIT == 16
PWM_RISING_FALLING_BIT == 8
PWM_RISING_RISING_BIT == 0
PWM_PERIOD_MAX == 255
PWM_FALLING_DEFAULT == 255
DEFAULT_TARGET_PWM_FREQ == 25000
DEFAULT_MIN_RPM == 2900
EINVAL == 22
EPERM == 1
ENOMEM == 12
ETIMEDOUT == 110
\* bool pwm_present[16], fan_tach_present[16]; default_pwm_params[], default_tacho_params[]
NUM_CHANNELS == 16
\* struct aspeed_cooling_device *cdev[8]
NUM_CDEV == 8

\* ------------------------------------------------- inputs of the model
\* channel numbers of the device description ("reg", "aspeed,fan-tach-ch")
Channels == {0, 1}

\* the indices of the per-device tables of 16 entries
Table == 0 .. (NUM_CHANNELS - 1)

\* source clock rates (clk_get_rate), Hz
Clocks == {24000000, 25600000, 33000000, 200000000}

\* values of "cooling-levels" entries (u8)
LevelValues == {0, 200}

RECURSIVE SeqsUpTo(_, _)
\* the sequences over S of length 1..n
SeqsUpTo(S, n) ==
  IF n = 0 THEN {}
  ELSE LET shorter == SeqsUpTo(S, n - 1)
       IN {<<x>> : x \in S} \cup shorter \cup {Append(t, x) : t \in shorter, x \in S}

\* the "cooling-levels" property: absent (<<>>) or a table of 1..MaxLevels bytes
LevelTables == {<<>>} \cup SeqsUpTo(LevelValues, MaxLevels)

\* what kstrtol makes of the buffer written to pwmN: an error, or a long
PwmWrites ==
  {[kret |-> -EINVAL, val |-> 0]} \cup
  {[kret |-> 0, val |-> v] : v \in {-1, 0, 1, 128, 255, 256}}

\* states the thermal core may ask for (unsigned long)
CoolingStates == 0 .. (MaxLevels + 1)

VARIABLES
  clk_freq,          \* priv->clk_freq
  dt,                \* the fan node of the device description
  probed,            \* aspeed_pwm_tachometer_probe has returned 0
  pwm_present,       \* priv->pwm_present[]
  fan_tach_present,  \* priv->fan_tach_present[]
  pwm_channel,       \* priv->pwm_channel[] (default_pwm_params)
  tacho_channel,     \* priv->tacho_channel[] (default_tacho_params)
  pwm_ctrl,          \* register ASPEED_PWM_CTRL_CH(x)
  pwm_duty,          \* register ASPEED_PWM_DUTY_CYCLE_CH(x)
  tacho_ctrl,        \* register ASPEED_TACHO_CTRL_CH(x)
  cdev,              \* the aspeed_cooling_device of the fan node
  adc,               \* ADC: the model data and the scaler clock's rate
  wlog,              \* the register writes of the last handler, in order
  rlog,              \* the status-register reads of the last handler, in order
  calls,             \* a set_pwm call and a thermal transition in flight together
  last               \* the last handler: its name, arguments and result

vars == <<clk_freq, dt, probed, pwm_present, fan_tach_present, pwm_channel,
          tacho_channel, pwm_ctrl, pwm_duty, tacho_ctrl, cdev, adc, wlog, rlog, calls,
          last>>

\* ------------------------------------------------- the register map
\* regmap_write: the word goes to the register
regmap_write(st, reg, ch, val) ==
  [st EXCEPT ![reg][ch] = val, !.wlog = Append(@, <<reg, ch, val>>)]

\* regmap_update_bits: read, replace the masked bits, write back when changed
regmap_update_bits(st, reg, ch, mask, val) ==
  LET orig == st[reg][ch]
      tmp == Or32(And32(orig, Not32(mask)), And32(val, mask))
  IN IF tmp # orig THEN regmap_write(st, reg, ch, tmp) ELSE st

\* the clock-enable and pin-enable bits of a control word
EnableBits == Or32(PWM_CLK_ENABLE, PWM_PIN_EN)

\* the fields of a duty-cycle word
DutyFalling(w) == (w[2] \div 256) % 256
DutyPeriod(w) == (w[1] \div 256) % 256

\* ------------------------------------------------- PWM
default_pwm_params(ch) ==
  [target_freq |-> DEFAULT_TARGET_PWM_FREQ,
   pwm_freq |-> 0,
   load_wdt_rising_falling_pt |-> 16,
   load_wdt_selection |-> 0,
   load_wdt_enable |-> IF ch = 0 THEN 1 ELSE 0,
   duty_sync_enable |-> 0,
   invert_pin |-> 0,
   rising |-> 0,
   falling |-> PWM_FALLING_DEFAULT]

\* faulty variant: a channel is disabled by writing 0 to the whole control register
aspeed_set_pwm_channel_enable_Clobber(st, ch, enable) ==
  IF enable
  THEN regmap_update_bits(st, "pwm_ctrl", ch, Or32(PWM_CLK_ENABLE, PWM_PIN_EN),
                          Or32(PWM_CLK_ENABLE, PWM_PIN_EN))
  ELSE regmap_write(st, "pwm_ctrl", ch, <<0, 0>>)

aspeed_set_pwm_channel_enable(st, ch, enable) ==
  regmap_update_bits(st, "pwm_ctrl", ch, Or32(PWM_CLK_ENABLE, PWM_PIN_EN),
                     IF enable THEN Or32(PWM_CLK_ENABLE, PWM_PIN_EN) ELSE <<0, 0>>)

\* the frequency of one divider pair
LadderFreq(cal_freq, div_h, div_l) == cal_freq \div (BIT(div_h) * (div_l + 1))

RECURSIVE DivHLoop(_, _, _, _)
\* for (div_h = 0; div_h < 0x10; div_h++) if (... < target_freq) break;
DivHLoop(cal_freq, target_freq, div_l, div_h) ==
  IF div_h < 16
  THEN IF LadderFreq(cal_freq, div_h, div_l) < target_freq
       THEN div_h
       ELSE DivHLoop(cal_freq, target_freq, div_l, div_h + 1)
  ELSE div_h

\* for (div_l = 0; div_l < 0x100; div_l++) { inner loop; if (... < target_freq) break; }
\* the loop is left at the first div_l whose test passes, with the div_h the inner loop
\* left; when no test passes it runs out with div_l = 256 and the div_h of the last pass
DivLLoop(cal_freq, target_freq, div_l, div_h) ==
  LET Breaks(l) ==
        LadderFreq(cal_freq, DivHLoop(cal_freq, target_freq, l, 0), l) < target_freq
  IN IF \E l \in div_l .. 255 : Breaks(l)
     THEN LET first == CHOOSE l \in div_l .. 255 :
                         Breaks(l) /\ \A m \in div_l .. (l - 1) : ~Breaks(m)
          IN <<DivHLoop(cal_freq, target_freq, first, 0), first>>
     ELSE <<IF div_l < 256 THEN DivHLoop(cal_freq, target_freq, 255, 0) ELSE div_h, 256>>

RECURSIVE SwappedLoop(_, _, _)
SwappedLoop(cal_freq, target_freq, div_h) ==
  LET hits == {l \in 0 .. 255 : LadderFreq(cal_freq, div_h, l) < target_freq}
  IN IF hits # {} THEN <<div_h, CHOOSE l \in hits : \A m \in hits : l <= m>>
     ELSE IF div_h < 15 THEN SwappedLoop(cal_freq, target_freq, div_h + 1)
     ELSE <<16, 256>>

\* faulty variant: the two loops nested the other way round (div_h outside, div_l inside)
PwmDividerSearch_Swapped(clk, target_freq) ==
  SwappedLoop(clk \div (PWM_PERIOD_MAX + 1), target_freq, 0)

\* the pair <<div_h, div_l>> the search of aspeed_set_pwm_channel_fan_ctrl ends with
PwmDividerSearch(clk, target_freq) ==
  DivLLoop(clk \div (PWM_PERIOD_MAX + 1), target_freq, 0, 0)

\* faulty variant: the enable bits are set before the duty-cycle and control registers
\* are written
aspeed_set_pwm_channel_fan_ctrl_EnableFirst(st, index, fan_ctrl) ==
  IF fan_ctrl = 0
  THEN aspeed_set_pwm_channel_enable(st, index, FALSE)
  ELSE
    LET p == st.pwm_channel[index]
        cal_freq == st.clk \div (PWM_PERIOD_MAX + 1)
        d == PwmDividerSearch(st.clk, p.target_freq)
        ctrl0 == Or32(Or32(W(d[1] * BIT(8)), W(d[2])), Or32(PWM_CLK_ENABLE, PWM_PIN_EN))
        duty0 == Or32(ShlW(PWM_PERIOD_MAX, PWM_PERIOD_BIT),
                      ShlW(fan_ctrl, PWM_RISING_FALLING_BIT))
        ctrl_value == IF p.load_wdt_enable # 0
                      THEN Or32(ctrl0, PWM_DUTY_LOAD_AS_WDT_EN)
                      ELSE ctrl0
        duty_value == IF p.load_wdt_enable # 0
                      THEN Or32(duty0, ShlW(p.load_wdt_rising_falling_pt,
                                            PWM_RISING_FALLING_AS_WDT_BIT))
                      ELSE duty0
        s1 == [st EXCEPT !.pwm_channel[index].pwm_freq = LadderFreq(cal_freq, d[1], d[2])]
        s2 == aspeed_set_pwm_channel_enable(s1, index, TRUE)
        s3 == regmap_write(s2, "pwm_duty", index, duty_value)
    IN regmap_write(s3, "pwm_ctrl", index, ctrl_value)

aspeed_set_pwm_channel_fan_ctrl(st, index, fan_ctrl) ==
  IF fan_ctrl = 0
  THEN aspeed_set_pwm_channel_enable(st, index, FALSE)
  ELSE
    LET p == st.pwm_channel[index]
        cal_freq == st.clk \div (PWM_PERIOD_MAX + 1)
        d == PwmDividerSearch(st.clk, p.target_freq)
        div_h == d[1]
        div_l == d[2]
        ctrl0 == Or32(W(div_h * BIT(8)), W(div_l))
        duty0 == Or32(Or32(ShlW(PWM_PERIOD_MAX, PWM_PERIOD_BIT), ShlW(0, PWM_RISING_RISING_BIT)),
                      ShlW(fan_ctrl, PWM_RISING_FALLING_BIT))
        ctrl_value == IF p.load_wdt_enable # 0
                      THEN IF p.load_wdt_selection # 0
                           THEN Or32(Or32(ctrl0, PWM_DUTY_LOAD_AS_WDT_EN), PWM_LOAD_AS_WDT)
                           ELSE Or32(ctrl0, PWM_DUTY_LOAD_AS_WDT_EN)
                      ELSE ctrl0
        duty_value == IF p.load_wdt_enable # 0
                      THEN Or32(duty0, ShlW(p.load_wdt_rising_falling_pt,
                                            PWM_RISING_FALLING_AS_WDT_BIT))
                      ELSE duty0
        s1 == [st EXCEPT !.pwm_channel[index].pwm_freq = LadderFreq(cal_freq, div_h, div_l)]
        s2 == regmap_write(s1, "pwm_duty", index, duty_value)
        s3 == regmap_write(s2, "pwm_ctrl", index, ctrl_value)
    IN aspeed_set_pwm_channel_enable(s3, index, TRUE)

\* the driver state a handler works on, with an empty write log
St ==
  [clk |-> clk_freq, pwm_ctrl |-> pwm_ctrl, pwm_duty |-> pwm_duty, tacho_ctrl |-> tacho_ctrl,
   pwm_channel |-> pwm_channel, tacho_channel |-> tacho_channel, wlog |-> <<>>,
   rlog |-> <<>>]

\* the handler's result becomes the next state
Commit(st) ==
  /\ pwm_ctrl' = st.pwm_ctrl
  /\ pwm_duty' = st.pwm_duty
  /\ tacho_ctrl' = st.tacho_ctrl
  /\ pwm_channel' = st.pwm_channel
  /\ tacho_channel' = st.tacho_channel
  /\ wlog' = st.wlog
  /\ rlog' = st.rlog

\* long -> u8
U8(v) == v % 256

\* faulty variant: a write of 0 disables the channel without storing the falling point
set_pwm_body_NoStoreOnZero(st, index, in) ==
  IF in.val = 0
  THEN aspeed_set_pwm_channel_enable(st, index, FALSE)
  ELSE LET s1 == [st EXCEPT !.pwm_channel[index].falling = U8(in.val)]
           s2 == regmap_update_bits(s1, "pwm_duty", index, <<0, 65280>>,
                                    ShlW(in.val, PWM_RISING_FALLING_BIT))
       IN IF st.pwm_channel[index].falling = 0
          THEN aspeed_set_pwm_channel_enable(s2, index, TRUE)
          ELSE s2

\* faulty variant: a channel that was off is not switched on again
set_pwm_body_NoReenable(st, index, in) ==
  LET fan_ctrl == in.val
      s1 == [st EXCEPT !.pwm_channel[index].falling = U8(fan_ctrl)]
  IN IF fan_ctrl = 0
     THEN aspeed_set_pwm_channel_enable(s1, index, FALSE)
     ELSE regmap_update_bits(s1, "pwm_duty", index, <<0, 65280>>,
                             ShlW(fan_ctrl, PWM_RISING_FALLING_BIT))

set_pwm_body(st, index, in) ==
  LET org_falling == st.pwm_channel[index].falling
      fan_ctrl == in.val
      s1 == [st EXCEPT !.pwm_channel[index].falling = U8(fan_ctrl)]
      s2 == IF fan_ctrl = 0
            THEN aspeed_set_pwm_channel_enable(s1, index, FALSE)
            ELSE regmap_update_bits(s1, "pwm_duty", index, <<0, 65280>>,
                                    ShlW(fan_ctrl, PWM_RISING_FALLING_BIT))
  IN IF org_falling = 0 THEN aspeed_set_pwm_channel_enable(s2, index, TRUE) ELSE s2

\* set_pwm: a write of count bytes to pwm<index+1>; the new state and the return value
set_pwm(st, index, in, count) ==
  IF in.kret # 0 THEN [st |-> st, ret |-> in.kret]
  ELSE IF in.val < 0 \/ in.val > PWM_PERIOD_MAX THEN [st |-> st, ret |-> -EINVAL]
  ELSE IF st.pwm_channel[index].falling = in.val THEN [st |-> st, ret |-> count]
  ELSE [st |-> set_pwm_body(st, index, in), ret |-> count]

\* show_pwm: sprintf("%u\n", falling): the number printed
show_pwm(st, index) == st.pwm_channel[index].falling

\* ------------------------------------------------- cooling device
\* aspeed_create_pwm_cooling: the cooling device of a node with num_levels levels
aspeed_create_pwm_cooling(pwm_ch, levels) ==
  [present |-> TRUE, index |-> pwm_ch, pwm_channel |-> pwm_ch, cooling_levels |-> levels,
   max_state |-> U8(Len(levels) - 1), cur_state |-> 0]

NoCdev ==
  [present |-> FALSE, index |-> 0, pwm_channel |-> 0, cooling_levels |-> <<>>, max_state |-> 0,
   cur_state |-> 0]

aspeed_pwm_cz_get_max_state(cd) == cd.max_state

aspeed_pwm_cz_get_cur_state(cd) == cd.cur_state

\* faulty variant: the state is stored before it is checked against max_state
aspeed_pwm_cz_set_cur_state_LateCheck(st, cd, state) ==
  LET cd1 == [cd EXCEPT !.cur_state = U8(state)]
  IN IF state > cd.max_state
     THEN [st |-> st, cdev |-> cd1, ret |-> -EINVAL]
     ELSE LET level == cd1.cooling_levels[cd1.cur_state + 1]
              s1 == [st EXCEPT !.pwm_channel[cd1.pwm_channel].falling = level]
          IN [st |-> aspeed_set_pwm_channel_fan_ctrl(s1, cd1.pwm_channel, level),
              cdev |-> cd1, ret |-> 0]

\* faulty variant: a transition to the current state returns at once
aspeed_pwm_cz_set_cur_state_SkipSame(st, cd, state) ==
  IF state > cd.max_state
  THEN [st |-> st, cdev |-> cd, ret |-> -EINVAL]
  ELSE IF state = cd.cur_state
  THEN [st |-> st, cdev |-> cd, ret |-> 0]
  ELSE LET cd1 == [cd EXCEPT !.cur_state = U8(state)]
           level == cd1.cooling_levels[cd1.cur_state + 1]
           s1 == [st EXCEPT !.pwm_channel[cd1.pwm_channel].falling = level]
       IN [st |-> aspeed_set_pwm_channel_fan_ctrl(s1, cd1.pwm_channel, level),
           cdev |-> cd1, ret |-> 0]

\* aspeed_pwm_cz_set_cur_state: the new driver state, cooling device and return value
aspeed_pwm_cz_set_cur_state(st, cd, state) ==
  IF state > cd.max_state
  THEN [st |-> st, cdev |-> cd, ret |-> -EINVAL]
  ELSE LET cd1 == [cd EXCEPT !.cur_state = U8(state)]
           level == cd1.cooling_levels[cd1.cur_state + 1]
           s1 == [st EXCEPT !.pwm_channel[cd1.pwm_channel].falling = level]
       IN [st |-> aspeed_set_pwm_channel_fan_ctrl(s1, cd1.pwm_channel, level),
           cdev |-> cd1, ret |-> 0]

\* ------------------------------------------------- tachometer
TACHO_IER == BITW(31)
TACHO_INVERS_LIMIT == BITW(30)
TACHO_ENABLE == BITW(28)
TACHO_DEBOUNCE_BIT == 26
TACHIO_EDGE_BIT == 24
TACHO_CLK_DIV_BIT == 20
TACHO_FULL_MEASUREMENT == BITW(20)
TACHO_VALUE_MASK == <<15, 65535>>
F2F_EDGES == 0
RETRIES == 3

default_tacho_params(ch) ==
  [min_rpm |-> DEFAULT_MIN_RPM, limited_inverse |-> 0, threshold |-> 0,
   tacho_edge |-> F2F_EDGES, tacho_debounce |-> 0, divide |-> 8]

\* faulty variant: the counting window taken as 16 bits (division by 0xffff + 1)
TargetDiv_Shift16(clk, min_rpm) ==
  U32(WMulSmall(DivU32(U32(WMulSmall(W(clk), 60)), W(min_rpm)), 2))[1]

\* target_div = (clk_freq * 60 / min_rpm * 2) / (0xfffff + 1), in unsigned long
TargetDiv(clk, min_rpm) ==
  LET a == U32(WMulSmall(W(clk), 60))
      b == DivU32(a, W(min_rpm))
      c == U32(WMulSmall(b, 2))
  IN c[1] \div 16

RECURSIVE TachoDivLoop_Doubling(_, _, _)
\* faulty variant: a doubling ladder (divide_val = BIT(i)) in place of the quadrupling one
TachoDivLoop_Doubling(target_div, i, divide_val) ==
  IF i < 12
  THEN LET dv == BIT(i)
       IN IF dv > target_div THEN <<i, dv>> ELSE TachoDivLoop_Doubling(target_div, i + 1, dv)
  ELSE <<i, divide_val>>

RECURSIVE TachoDivLoop(_, _, _)
\* for (i = 0; i < 12; i++) { divide_val = BIT(i) * BIT(i); if (divide_val > target_div) break; }
\* <<i, divide_val>> when the loop is left
TachoDivLoop(target_div, i, divide_val) ==
  IF i < 12
  THEN LET dv == BIT(i) * BIT(i)
       IN IF dv > target_div THEN <<i, dv>> ELSE TachoDivLoop(target_div, i + 1, dv)
  ELSE <<i, divide_val>>

\* the pair <<i, divide_val>> of aspeed_set_fan_tach_ch_enable
TachoDivider(clk, min_rpm) ==
  LET target_div == TargetDiv(clk, min_rpm)
  IN IF target_div # 0 THEN TachoDivLoop(target_div, 0, 0) ELSE <<0, 1>>

\* faulty variant: the divider goes to the register but is not stored in the channel
aspeed_set_fan_tach_ch_enable_NoStore(st, ch, enable) ==
  IF enable
  THEN LET t == st.tacho_channel[ch]
           d == TachoDivider(st.clk, t.min_rpm)
           r0 == Or32(Or32(TACHO_ENABLE, ShlW(t.tacho_edge, TACHIO_EDGE_BIT)),
                      Or32(ShlW(d[1], TACHO_CLK_DIV_BIT),
                           ShlW(t.tacho_debounce, TACHO_DEBOUNCE_BIT)))
       IN regmap_write(st, "tacho_ctrl", ch, r0)
  ELSE regmap_update_bits(st, "tacho_ctrl", ch, TACHO_ENABLE, <<0, 0>>)

aspeed_set_fan_tach_ch_enable(st, ch, enable) ==
  IF enable
  THEN LET t == st.tacho_channel[ch]
           d == TachoDivider(st.clk, t.min_rpm)
           r0 == Or32(Or32(TACHO_ENABLE, ShlW(t.tacho_edge, TACHIO_EDGE_BIT)),
                      Or32(ShlW(d[1], TACHO_CLK_DIV_BIT),
                           ShlW(t.tacho_debounce, TACHO_DEBOUNCE_BIT)))
           r1 == IF t.limited_inverse # 0 THEN Or32(r0, TACHO_INVERS_LIMIT) ELSE r0
           r2 == IF t.threshold # 0 THEN Or32(r1, Or32(TACHO_IER, W(t.threshold))) ELSE r1
           s1 == [st EXCEPT !.tacho_channel[ch].divide = d[2]]
       IN regmap_write(s1, "tacho_ctrl", ch, r2)
  ELSE regmap_update_bits(st, "tacho_ctrl", ch, TACHO_ENABLE, <<0, 0>>)

RECURSIVE Poll(_, _)
\* for (i = 0; i < retries; i++) { read val; if (TACHO_FULL_MEASUREMENT & val) break; }
\* <<number of reads, val>> for the words the status register returns in turn
Poll(sts, i) ==
  IF And32(TACHO_FULL_MEASUREMENT, sts[i + 1]) # <<0, 0>> \/ i + 1 >= RETRIES
  THEN <<i + 1, sts[i + 1]>>
  ELSE Poll(sts, i + 1)

\* what a division by zero may leave as the quotient
DivZeroQuotients(a) == {<<0, 0>>, a, <<HALF - 1, HALF - 1>>}

\* faulty variant: the sentinel compared with 0xffffe
RpmOutcomes_SentinelOff(clk, divide, val) ==
  LET raw_data == And32(val, <<15, 65535>>)
      raw1 == U32(WAdd(raw_data, <<0, 1>>))
      tach_div == U32(WMulSmall(MulU32(raw1, W(divide)), 2))
  IN IF raw_data = <<15, 65534>> THEN {0}
     ELSE IF tach_div = <<0, 0>>
     THEN {ToInt(U32(WMulSmall(q, 60))) : q \in {<<0, 0>>, W(clk)}}
     ELSE {ToInt(U32(WMulSmall(DivU32(W(clk), tach_div), 60)))}

\* the values aspeed_get_fan_tach_ch_rpm may return (int) for the status word val
RpmOutcomes(clk, divide, val) ==
  LET raw_data == And32(val, TACHO_VALUE_MASK)
      raw1 == U32(WAdd(raw_data, <<0, 1>>))
      tach_div == U32(WMulSmall(MulU32(raw1, W(divide)), 2))
  IN IF raw_data = <<15, 65535>> THEN {0}
     ELSE IF raw1 = <<0, 0>> THEN {0}
     ELSE IF tach_div = <<0, 0>>
     THEN {ToInt(U32(WMulSmall(q, 60))) : q \in DivZeroQuotients(W(clk))}
     ELSE {ToInt(U32(WMulSmall(DivU32(W(clk), tach_div), 60)))}

\* the tachometer divider is zero for this status word: the division traps
RpmDivByZero(divide, val) ==
  LET raw_data == And32(val, TACHO_VALUE_MASK)
      raw1 == U32(WAdd(raw_data, <<0, 1>>))
  IN /\ raw_data # <<15, 65535>>
     /\ U32(WMulSmall(MulU32(raw1, W(divide)), 2)) = <<0, 0>>

RECURSIVE DecLen(_)
\* the number of decimal digits of n >= 0
DecLen(n) == IF n < 10 THEN 1 ELSE 1 + DecLen(n \div 10)

\* show_rpm: an error when the RPM is negative as int, else the length of "%d\n"
show_rpm_ret(rpm) == IF rpm < 0 THEN rpm ELSE DecLen(rpm) + 1

\* minimum RPMs of the device description ("aspeed,min_rpm", u32, nonzero)
MinRpms == {1, DEFAULT_MIN_RPM, 10000, 60000}

\* source clock rates of the tachometer runs, Hz
TachoClocks == {24000000, 200000000}

\* "aspeed,fan-tach-ch" lists
TachLists == {<<0>>, <<1>>, <<0, 1>>}

\* raw counts the status register may hold
RawSamples == {0, 1, 2, 999, 524286, 524287, 524288, 1048574, 1048575}

\* a status word: the 20-bit value, the full-measurement flag, the value-updated flag
StsWord(raw, full, upd) == <<(raw \div HALF) + 16 * full + 32 * upd, raw % HALF>>

StsValues == {StsWord(r, f, f) : r \in RawSamples, f \in {0, 1}}
StsPending == StsWord(5, 0, 0)
StsFill == {StsPending, StsWord(7, 1, 1)}

\* what three reads of the status register may return
StsTriples ==
  {<<a, StsPending, b>> : a \in StsValues, b \in StsFill} \cup
  {<<StsPending, a, b>> : a \in StsValues, b \in StsFill} \cup
  {<<StsPending, StsPending, a>> : a \in StsValues}

\* ------------------------------------------------- probe
RECURSIVE aspeed_create_fan_tach_channel(_, _, _, _)
\* for each listed channel: set min_rpm and enable it
aspeed_create_fan_tach_channel(st, fan_tach_ch, val, min_rpm) ==
  IF val > Len(fan_tach_ch) THEN st
  ELSE LET index == fan_tach_ch[val]
           s1 == [st EXCEPT !.tacho_channel[index].min_rpm = min_rpm]
       IN aspeed_create_fan_tach_channel(aspeed_set_fan_tach_ch_enable(s1, index, TRUE),
                                         fan_tach_ch, val + 1, min_rpm)

aspeed_create_pwm_channel(st, pwm_ch) ==
  aspeed_set_pwm_channel_fan_ctrl(st, pwm_ch, st.pwm_channel[pwm_ch].falling)

\* aspeed_pwm_create_fan for the fan node: the driver state, the cooling device, the
\* channels made present and the return value
aspeed_pwm_create_fan(st, node) ==
  LET \* read into a local of the function, which nothing reads afterwards
      target_pwm_freq == IF Len(node.target_pwm) = 0
                         THEN DEFAULT_TARGET_PWM_FREQ
                         ELSE node.target_pwm[1]
      s1 == aspeed_create_pwm_channel(st, node.reg)
      cd == IF Len(node.levels) > 0
            THEN aspeed_create_pwm_cooling(node.reg, node.levels)
            ELSE NoCdev
  IN IF Len(node.tach) < 1
     THEN [st |-> s1, cdev |-> cd, pwm |-> {node.reg}, tach |-> {}, ret |-> -EINVAL]
     ELSE [st |-> aspeed_create_fan_tach_channel(s1, node.tach, 1, node.min_rpm),
           cdev |-> cd, pwm |-> {node.reg},
           tach |-> {node.tach[i] : i \in 1 .. Len(node.tach)}, ret |-> 0]

Last(op, ch, arg, ret, out, n) ==
  [op |-> op, ch |-> ch, arg |-> arg, ret |-> ret, out |-> out, n |-> n]

\* aspeed_pwm_tachometer_probe
Probe ==
  /\ last.op = "init"
  /\ LET r == aspeed_pwm_create_fan(St, dt)
     IN /\ Commit(r.st)
        /\ cdev' = r.cdev
        /\ pwm_present' = [c \in Table |-> c \in r.pwm]
        /\ fan_tach_present' = [c \in Table |-> c \in r.tach]
        /\ probed' = (r.ret = 0)
        /\ last' = Last("probe", dt.reg, 0, r.ret, 0, 0)
  /\ UNCHANGED <<calls, clk_freq, dt, adc>>

\* ------------------------------------------------- the handlers as actions
SetPwm(index, in, count) ==
  /\ probed /\ pwm_present[index]
  /\ LET r == set_pwm(St, index, in, count)
     IN /\ Commit(r.st)
        /\ last' = Last("set_pwm", index, in.val, r.ret, 0, 0)
  /\ UNCHANGED <<calls, clk_freq, dt, probed, pwm_present, fan_tach_present, cdev, adc>>

ShowPwm(index) ==
  /\ probed /\ pwm_present[index]
  /\ Commit(St)
  /\ last' = Last("show_pwm", index, 0, DecLen(show_pwm(St, index)) + 1, show_pwm(St, index), 0)
  /\ UNCHANGED <<calls, clk_freq, dt, probed, pwm_present, fan_tach_present, cdev, adc>>

CzSetCurState(state) ==
  /\ probed /\ cdev.present
  /\ LET r == aspeed_pwm_cz_set_cur_state(St, cdev, state)
     IN /\ Commit(r.st)
        /\ cdev' = r.cdev
        /\ last' = Last("set_cur_state", cdev.pwm_channel, state, r.ret, 0, 0)
  /\ UNCHANGED <<calls, clk_freq, dt, probed, pwm_present, fan_tach_present, adc>>

CzGetCurState ==
  /\ probed /\ cdev.present
  /\ Commit(St)
  /\ last' = Last("get_cur_state", cdev.pwm_channel, 0, 0, aspeed_pwm_cz_get_cur_state(cdev), 0)
  /\ UNCHANGED <<calls, clk_freq, dt, probed, pwm_present, fan_tach_present, cdev, adc>>

CzGetMaxState ==
  /\ probed /\ cdev.present
  /\ Commit(St)
  /\ last' = Last("get_max_state", cdev.pwm_channel, 0, 0, aspeed_pwm_cz_get_max_state(cdev), 0)
  /\ UNCHANGED <<calls, clk_freq, dt, probed, pwm_present, fan_tach_present, cdev, adc>>

\* show_rpm on fan<index+1>_input; sts: what the status register returns, read by read
ShowRpm(index, sts) ==
  /\ probed /\ fan_tach_present[index]
  /\ LET p == Poll(sts, 0)
     IN \E rpm \in RpmOutcomes(clk_freq, tacho_channel[index].divide, p[2]) :
          last' = Last("show_rpm", index, p[2], show_rpm_ret(rpm), rpm, p[1])
  /\ Commit([St EXCEPT !.rlog = SubSeq(sts, 1, Poll(sts, 0)[1])])
  /\ UNCHANGED <<calls, clk_freq, dt, probed, pwm_present, fan_tach_present, cdev, adc>>

\* aspeed_set_fan_tach_ch_enable on a present channel, as a function of its enable
\* argument (in the driver the probe is its caller, with enable = true)
FanTachChEnable(ch, enable) ==
  /\ probed /\ fan_tach_present[ch]
  /\ Commit(aspeed_set_fan_tach_ch_enable(St, ch, enable))
  /\ last' = Last("tach_enable", ch, IF enable THEN 1 ELSE 0, 0, 0, 0)
  /\ UNCHANGED <<calls, clk_freq, dt, probed, pwm_present, fan_tach_present, cdev, adc>>

\* ------------------------------------------------- ADC
ASPEED_CLOCKS_PER_SAMPLE == 12

AdcModels == {"ast2400", "ast2500", "ast2600"}

\* aspeed_adc_model_data: the sampling-rate limits of a model
model_data(m) ==
  IF m = "ast2400"
  THEN [min_sampling_rate |-> 10000, max_sampling_rate |-> 500000]
  ELSE [min_sampling_rate |-> 1, max_sampling_rate |-> 1000000]

\* int -> unsigned int
IntToW(v) == IF v >= 0 THEN W(v) ELSE WSub(<<HALF, 0>>, W(-v))

\* values written to the ADC attributes (int)
AdcWrites == {-1, 0, 9999, 10000, 500001, 1000001}

AdcMasks == {"SAMP_FREQ", "SCALE", "RAW", "OFFSET"}

\* scaler clock rates before the first write
AdcInitRates == {6000000}

\* faulty variant: the sample rate is checked against the minimum only
aspeed_adc_write_raw_NoMaxCheck(a, val, mask) ==
  IF mask = "SAMP_FREQ"
  THEN IF val < model_data(a.model).min_sampling_rate
       THEN [adc |-> a, ret |-> -EINVAL]
       ELSE [adc |-> [a EXCEPT !.rate = val * 12], ret |-> 0]
  ELSE IF mask \in {"SCALE", "RAW"}
  THEN [adc |-> a, ret |-> -EPERM]
  ELSE [adc |-> a, ret |-> -EINVAL]

\* aspeed_adc_write_raw: the ADC state and the return value
aspeed_adc_write_raw(a, val, mask) ==
  IF mask = "SAMP_FREQ"
  THEN IF WLess(IntToW(val), W(model_data(a.model).min_sampling_rate))
          \/ WLess(W(model_data(a.model).max_sampling_rate), IntToW(val))
       THEN [adc |-> a, ret |-> -EINVAL]
       ELSE [adc |-> [a EXCEPT !.rate = val * ASPEED_CLOCKS_PER_SAMPLE], ret |-> 0]
  ELSE IF mask \in {"SCALE", "RAW"}
  THEN [adc |-> a, ret |-> -EPERM]
  ELSE [adc |-> a, ret |-> -EINVAL]

AdcWriteRaw(val, mask) ==
  /\ adc.registered
  /\ LET r == aspeed_adc_write_raw(adc, val, mask)
     IN /\ adc' = r.adc
        /\ last' = Last("write_raw", 0, val, r.ret, mask, 0)
  /\ wlog' = <<>> /\ rlog' = <<>>
  /\ UNCHANGED <<calls, clk_freq, dt, probed, pwm_present, fan_tach_present, pwm_channel,
                 tacho_channel, pwm_ctrl, pwm_duty, tacho_ctrl, cdev>>

\* ------------------------------------------------- ADC probe and remove
\* the model data's wait_init_sequence flag
wait_init_sequence(m) == m \in {"ast2500", "ast2600"}

\* the steps of aspeed_adc_probe that can fail
AdcFailPoints ==
  {"alloc", "ioremap", "prescaler", "scaler", "reset", "poll", "clk_enable", "iio_register"}

\* error codes returned by the helpers the probe calls
AdcErrnos == {ENOMEM, EINVAL}

\* the ADC before it is bound: nothing held, not registered
AdcUnbound(models) ==
  [model : models, rate : AdcInitRates, held : {<<>>}, log : {<<>>}, registered : {FALSE}]

\* faulty variant: the poll timeout jumps past the reset assert
AdcUnwind_TimeoutKeepsReset(label) ==
  LET iio == <<"power_down", "clk_disable">>
      rst == <<"reset_assert">>
      scaler == <<"unregister_scaler">>
      prescaler == <<"unregister_prescaler">>
  IN IF label = "iio_register_error" THEN iio \o rst \o scaler \o prescaler
     ELSE IF label = "clk_enable_error" THEN rst \o scaler \o prescaler
     ELSE IF label \in {"poll_timeout_error", "reset_error"} THEN scaler \o prescaler
     ELSE IF label = "scaler_error" THEN prescaler
     ELSE <<>>

\* the error labels of aspeed_adc_probe: what runs from a label to the return
AdcUnwind(label) ==
  LET iio == <<"power_down", "clk_disable">>
      rst == <<"reset_assert">>
      scaler == <<"unregister_scaler">>
      prescaler == <<"unregister_prescaler">>
  IN IF label = "iio_register_error" THEN iio \o rst \o scaler \o prescaler
     ELSE IF label \in {"clk_enable_error", "poll_timeout_error"} THEN rst \o scaler \o prescaler
     ELSE IF label = "reset_error" THEN scaler \o prescaler
     ELSE IF label = "scaler_error" THEN prescaler
     ELSE <<>>

\* what a step of the unwinding gives back
Releases(e) ==
  IF e = "clk_disable" THEN "clk_enable"
  ELSE IF e = "reset_assert" THEN "reset_deassert"
  ELSE IF e = "unregister_scaler" THEN "register_scaler"
  ELSE IF e = "unregister_prescaler" THEN "register_prescaler"
  ELSE IF e = "iio_unregister" THEN "iio_register"
  ELSE "none"

AdcResources ==
  {"register_prescaler", "register_scaler", "reset_deassert", "clk_enable", "iio_register"}

\* the resources still held after the events of a log, oldest first
RECURSIVE HeldAfter(_, _)
HeldAfter(held, log) ==
  IF log = <<>> THEN held
  ELSE LET e == Head(log)
       IN IF e \in AdcResources THEN HeldAfter(Append(held, e), Tail(log))
          ELSE IF Releases(e) = "none" THEN HeldAfter(held, Tail(log))
          ELSE HeldAfter(SelectSeq(held, LAMBDA h : h # Releases(e)), Tail(log))

\* aspeed_adc_probe: the events in order, the return value and the ADC state;
\* fail names the step that fails ("none": no step fails), err its error code
aspeed_adc_probe(a, fail, err) ==
  LET wait == wait_init_sequence(a.model)
      upto_reset == <<"register_prescaler", "register_scaler", "reset_deassert">>
      engine == IF wait THEN <<"engine_enable">> ELSE <<>>
      upto_clk == upto_reset \o engine \o <<"compensation">>
      upto_iio == upto_clk \o <<"clk_enable", "start_channels">>
      Fail(log, ret) ==
        [adc |-> [a EXCEPT !.log = log, !.held = HeldAfter(<<>>, log), !.registered = FALSE],
         ret |-> ret]
  IN IF fail = "alloc" THEN Fail(<<>>, -ENOMEM)
     ELSE IF fail = "ioremap" THEN Fail(<<>>, -err)
     ELSE IF fail = "prescaler" THEN Fail(<<>>, -err)
     ELSE IF fail = "scaler"
     THEN Fail(<<"register_prescaler">> \o AdcUnwind("scaler_error"), -err)
     ELSE IF fail = "reset"
     THEN Fail(<<"register_prescaler", "register_scaler">> \o AdcUnwind("reset_error"), -err)
     ELSE IF fail = "poll" /\ wait
     THEN Fail(upto_reset \o engine \o AdcUnwind("poll_timeout_error"), -ETIMEDOUT)
     ELSE IF fail = "clk_enable"
     THEN Fail(upto_clk \o AdcUnwind("clk_enable_error"), -err)
     ELSE IF fail = "iio_register"
     THEN Fail(upto_iio \o AdcUnwind("iio_register_error"), -err)
     ELSE LET log == upto_iio \o <<"iio_register">>
          IN [adc |-> [a EXCEPT !.log = log, !.held = HeldAfter(<<>>, log),
                                !.registered = TRUE],
              ret |-> 0]

\* aspeed_adc_remove
aspeed_adc_remove(a) ==
  LET log == <<"iio_unregister", "power_down", "clk_disable", "reset_assert",
               "unregister_scaler", "unregister_prescaler">>
  IN [a EXCEPT !.log = log, !.held = HeldAfter(a.held, log), !.registered = FALSE]

\* the ADC after a probe in which no step failed
AdcBound(models) ==
  {aspeed_adc_probe(a, "none", 0).adc : a \in AdcUnbound(models)}

\* the driver core binds the device: probe runs on a device that is not bound
AdcProbe(fail, err) ==
  /\ ~adc.registered /\ adc.held = <<>>
  /\ fail = "poll" => wait_init_sequence(adc.model)
  /\ LET r == aspeed_adc_probe(adc, fail, err)
     IN /\ adc' = r.adc
        /\ last' = Last("adc_probe", 0, 0, r.ret, fail, 0)
  /\ wlog' = <<>> /\ rlog' = <<>>
  /\ UNCHANGED <<calls, clk_freq, dt, probed, pwm_present, fan_tach_present, pwm_channel,
                 tacho_channel, pwm_ctrl, pwm_duty, tacho_ctrl, cdev>>

\* the driver core unbinds a bound device
AdcRemove ==
  /\ adc.registered
  /\ adc' = aspeed_adc_remove(adc)
  /\ last' = Last("adc_remove", 0, 0, 0, 0, 0)
  /\ wlog' = <<>> /\ rlog' = <<>>
  /\ UNCHANGED <<calls, clk_freq, dt, probed, pwm_present, fan_tach_present, pwm_channel,
                 tacho_channel, pwm_ctrl, pwm_duty, tacho_ctrl, cdev>>

\* ------------------------------------------------- overlapping calls
\* no call in flight
IdleCalls ==
  [upc |-> "idle", tpc |-> "idle", val |-> 0, org |-> 0, state |-> 0, ser |-> {}]

\* what the two calls leave behind on a channel: the stored falling point, the falling
\* field of the duty-cycle register and the enable bits
Outcome(st, ch) ==
  [falling |-> st.pwm_channel[ch].falling,
   duty |-> DutyFalling(st.pwm_duty[ch]),
   enable |-> And32(st.pwm_ctrl[ch], EnableBits)]

\* the outcomes of the two serial orders of set_pwm(val) and set_cur_state(state)
SerialOutcomes(st, cd, val, state) ==
  LET in == [kret |-> 0, val |-> val]
      u1 == set_pwm(st, cd.pwm_channel, in, 1).st
      ut == aspeed_pwm_cz_set_cur_state(u1, cd, state).st
      t1 == aspeed_pwm_cz_set_cur_state(st, cd, state)
      tu == set_pwm(t1.st, t1.cdev.pwm_channel, in, 1).st
  IN {Outcome(ut, cd.pwm_channel), Outcome(tu, cd.pwm_channel)}

\* faulty variant: set_pwm waits while a thermal transition is between its first and
\* its last step (a lock around both handlers)
set_pwm_ready_Locked(c) ==
  /\ c.upc \notin {"idle", "done"}
  /\ c.tpc \in {"t_cur", "done"}

\* set_pwm may take its next step: the handler takes no lock
set_pwm_ready(c) == c.upc \notin {"idle", "done"}

\* aspeed_pwm_cz_set_cur_state may take its next step: the handler takes no lock
set_cur_state_ready(c) == c.tpc \notin {"idle", "done"}

\* one step of set_pwm on channel index: each load or store of the falling point and
\* each regmap call is a step of its own
set_pwm_step(st, index, c) ==
  IF c.upc = "u_org"
  THEN [st |-> st, c |-> [c EXCEPT !.org = st.pwm_channel[index].falling, !.upc = "u_cmp"]]
  ELSE IF c.upc = "u_cmp"
  THEN [st |-> st,
        c |-> [c EXCEPT !.upc = IF st.pwm_channel[index].falling = c.val
                                THEN "done" ELSE "u_store"]]
  ELSE IF c.upc = "u_store"
  THEN [st |-> [st EXCEPT !.pwm_channel[index].falling = U8(c.val)],
        c |-> [c EXCEPT !.upc = "u_reg"]]
  ELSE IF c.upc = "u_reg"
  THEN [st |-> IF c.val = 0
               THEN aspeed_set_pwm_channel_enable(st, index, FALSE)
               ELSE regmap_update_bits(st, "pwm_duty", index, <<0, 65280>>,
                                       ShlW(c.val, PWM_RISING_FALLING_BIT)),
        c |-> [c EXCEPT !.upc = "u_en"]]
  ELSE [st |-> IF c.org = 0 THEN aspeed_set_pwm_channel_enable(st, index, TRUE) ELSE st,
        c |-> [c EXCEPT !.upc = "done"]]

\* one step of aspeed_pwm_cz_set_cur_state: the stores of cur_state and of the falling
\* point, then the register writes of aspeed_set_pwm_channel_fan_ctrl one by one
set_cur_state_step(st, cd, c) ==
  LET ch == cd.pwm_channel
      level == cd.cooling_levels[cd.cur_state + 1]
      whole == aspeed_set_pwm_channel_fan_ctrl([st EXCEPT !.wlog = <<>>], ch, level)
  IN IF c.tpc = "t_cur"
     THEN [st |-> st, cdev |-> [cd EXCEPT !.cur_state = U8(c.state)],
           c |-> [c EXCEPT !.tpc = "t_store"]]
     ELSE IF c.tpc = "t_store"
     THEN [st |-> [st EXCEPT !.pwm_channel[ch].falling = level], cdev |-> cd,
           c |-> [c EXCEPT !.tpc = "t_duty"]]
     ELSE IF c.tpc = "t_duty"
     THEN IF level = 0
          THEN [st |-> aspeed_set_pwm_channel_enable(st, ch, FALSE), cdev |-> cd,
                c |-> [c EXCEPT !.tpc = "done"]]
          ELSE [st |-> regmap_write(
                         [st EXCEPT !.pwm_channel[ch].pwm_freq = whole.pwm_channel[ch].pwm_freq],
                         "pwm_duty", ch, whole.wlog[1][3]),
                cdev |-> cd, c |-> [c EXCEPT !.tpc = "t_ctrl"]]
     ELSE IF c.tpc = "t_ctrl"
     THEN [st |-> regmap_write(st, "pwm_ctrl", ch, whole.wlog[2][3]), cdev |-> cd,
           c |-> [c EXCEPT !.tpc = "t_en"]]
     ELSE [st |-> aspeed_set_pwm_channel_enable(st, ch, TRUE), cdev |-> cd,
           c |-> [c EXCEPT !.tpc = "done"]]

\* values written to pwmN and states asked for while the two calls overlap
RaceWrites == {0, 128}

\* a write of val to the cooling device's pwmN and a transition to state begin together
RaceBegin(val, state) ==
  /\ probed /\ cdev.present
  /\ calls.upc = "idle" /\ calls.tpc = "idle"
  /\ state <= cdev.max_state
  /\ calls' = [upc |-> "u_org", tpc |-> "t_cur", val |-> val, org |-> 0, state |-> state,
               ser |-> SerialOutcomes(St, cdev, val, state)]
  /\ Commit(St)
  /\ last' = Last("begin", cdev.pwm_channel, val, 0, state, 0)
  /\ UNCHANGED <<clk_freq, dt, probed, pwm_present, fan_tach_present, cdev, adc>>

SetPwmStep ==
  /\ set_pwm_ready(calls)
  /\ LET r == set_pwm_step(St, cdev.pwm_channel, calls)
     IN Commit(r.st) /\ calls' = r.c
  /\ last' = Last("set_pwm_step", cdev.pwm_channel, calls.val, 0, 0, 0)
  /\ UNCHANGED <<clk_freq, dt, probed, pwm_present, fan_tach_present, cdev, adc>>

SetCurStateStep ==
  /\ set_cur_state_ready(calls)
  /\ LET r == set_cur_state_step(St, cdev, calls)
     IN Commit(r.st) /\ calls' = r.c /\ cdev' = r.cdev
  /\ last' = Last("set_cur_state_step", cdev.pwm_channel, calls.state, 0, 0, 0)
  /\ UNCHANGED <<clk_freq, dt, probed, pwm_present, fan_tach_present, adc>>

\* both calls have returned
RaceEnd ==
  /\ calls.upc = "done" /\ calls.tpc = "done"
  /\ calls' = IdleCalls
  /\ Commit(St)
  /\ last' = Last("end", cdev.pwm_channel, 0, 0, 0, 0)
  /\ UNCHANGED <<clk_freq, dt, probed, pwm_present, fan_tach_present, cdev, adc>>

\* ------------------------------------------------- specifications
InitWith(clocks, freqs, regs, targets, tables, tachs, rpms, adcs) ==
  /\ clk_freq \in clocks
  /\ dt \in [reg : regs, target_pwm : targets, levels : tables, tach : tachs, min_rpm : rpms]
  /\ probed = FALSE
  /\ pwm_present = [c \in Table |-> FALSE]
  /\ fan_tach_present = [c \in Table |-> FALSE]
  /\ \E f \in freqs :
       pwm_channel = [c \in Table |-> [default_pwm_params(c) EXCEPT !.target_freq = f]]
  /\ tacho_channel = [c \in Table |-> default_tacho_params(c)]
  /\ pwm_ctrl = [c \in Table |-> <<0, 0>>]
  /\ pwm_duty = [c \in Table |-> <<0, 0>>]
  /\ tacho_ctrl = [c \in Table |-> <<0, 0>>]
  /\ cdev = NoCdev
  /\ adc \in adcs
  /\ wlog = <<>>
  /\ rlog = <<>>
  /\ calls = IdleCalls
  /\ last = Last("init", 0, 0, 0, 0, 0)

NextPwm ==
  \/ Probe
  \/ \E index \in Table, in \in PwmWrites, count \in 1 .. MaxCount : SetPwm(index, in, count)
  \/ \E index \in Table : ShowPwm(index)
  \/ \E state \in CoolingStates : CzSetCurState(state)
  \/ CzGetCurState
  \/ CzGetMaxState

NextTacho ==
  \/ Probe
  \/ \E index \in Table, sts \in StsTriples : ShowRpm(index, sts)

NextAdc == \E val \in AdcWrites, mask \in AdcMasks : AdcWriteRaw(val, mask)

\* the PWM outputs and the cooling device
Init ==
  InitWith(Clocks, {DEFAULT_TARGET_PWM_FREQ}, Channels, {<<>>}, LevelTables, {<<0>>}, {DEFAULT_MIN_RPM}, AdcBound({"ast2600"}))
Spec == Init /\ [][NextPwm]_vars

\* the tachometer inputs
InitTacho ==
  InitWith(TachoClocks, {DEFAULT_TARGET_PWM_FREQ}, {0}, {<<>>}, {<<>>}, TachLists, MinRpms, AdcBound({"ast2600"}))
SpecTacho == InitTacho /\ [][NextTacho]_vars

\* the tachometer inputs, with the channel enable function applied with either argument
NextTachoCh ==
  \/ NextTacho
  \/ \E ch \in Table, enable \in BOOLEAN : FanTachChEnable(ch, enable)
InitTachoCh ==
  InitWith(TachoClocks, {DEFAULT_TARGET_PWM_FREQ}, {0}, {<<>>}, {<<>>}, {<<0>>, <<0, 1>>},
           {1, DEFAULT_MIN_RPM},
           AdcBound({"ast2600"}))
SpecTachoCh == InitTachoCh /\ [][NextTachoCh]_vars

\* the writable attributes of both drivers
InitWrites ==
  InitWith({24000000}, {DEFAULT_TARGET_PWM_FREQ}, {0}, {<<>>}, {<<>>, <<0, 200>>}, {<<0>>}, {DEFAULT_MIN_RPM}, AdcBound(AdcModels))
NextWrites == NextPwm \/ NextAdc
SpecWrites == InitWrites /\ [][NextWrites]_vars

\* the ADC bound and unbound, with every step of the probe failing
InitAdcProbe ==
  InitWith({24000000}, {DEFAULT_TARGET_PWM_FREQ}, {0}, {<<>>}, {<<>>}, {<<0>>}, {DEFAULT_MIN_RPM}, AdcUnbound(AdcModels))
NextAdcProbe ==
  \/ \E fail \in AdcFailPoints \cup {"none"}, err \in AdcErrnos : AdcProbe(fail, err)
  \/ AdcRemove
  \/ NextAdc
SpecAdcProbe == InitAdcProbe /\ [][NextAdcProbe]_vars

\* fan nodes on the low and the high channels, with and without cooling levels
CreateRegs == {0, 7, 8, 15}
CreateTachs == {<<0>>, <<15>>, <<7, 8>>}
InitCreate ==
  InitWith({24000000}, {DEFAULT_TARGET_PWM_FREQ}, CreateRegs, {<<>>}, {<<>>, <<0, 200>>},
           CreateTachs, {DEFAULT_MIN_RPM}, AdcBound({"ast2600"}))
SpecCreate == InitCreate /\ [][NextPwm]_vars

\* the probe of fan nodes with and without the "aspeed,target_pwm" property
DtTargets == {<<>>, <<1000>>, <<DEFAULT_TARGET_PWM_FREQ>>, <<50000>>}
InitAttach ==
  InitWith({24000000, 200000000}, {DEFAULT_TARGET_PWM_FREQ}, Channels, DtTargets,
           {<<>>, <<0, 200>>}, {<<0>>}, {DEFAULT_MIN_RPM}, AdcBound({"ast2600"}))
SpecAttach == InitAttach /\ [][NextPwm]_vars

\* a user write and a thermal transition overlapping on the channel of the cooling device
NextRace ==
  \/ Probe
  \/ \E val \in RaceWrites, state \in CoolingStates : RaceBegin(val, state)
  \/ SetPwmStep
  \/ SetCurStateStep
  \/ RaceEnd
InitRace ==
  InitWith({24000000}, {DEFAULT_TARGET_PWM_FREQ}, Channels, {<<>>}, {<<0, 200>>, <<200>>},
           {<<0>>}, {DEFAULT_MIN_RPM}, AdcBound({"ast2600"}))
SpecRace == InitRace /\ [][NextRace]_vars

\* the divider search as a function of the two values it reads: the source clock and
\* the target_freq field of the channel parameters (25000 in every entry of
\* default_pwm_params)
SearchClocks == {24000000, 200000000}
SearchTargets == {0, 1, DEFAULT_TARGET_PWM_FREQ, 100000}
InitSearch ==
  InitWith(SearchClocks, SearchTargets, Channels, {<<>>}, {<<>>, <<0, 200>>}, {<<0>>},
           {DEFAULT_MIN_RPM}, AdcBound({"ast2600"}))
SpecSearch == InitSearch /\ [][NextPwm]_vars

\* ------------------------------------------------- helpers of the properties
\* bit i (0..31) of a register word
RegBit(w, i) == IF i >= 16 THEN (w[1] \div (2 ^ (i - 16))) % 2 ELSE (w[2] \div (2 ^ i)) % 2

\* the divider fields of the control register of a channel
CtrlDivH(ch) == (pwm_ctrl[ch][2] \div 256) % 16
CtrlDivL(ch) == pwm_ctrl[ch][2] % 256

\* the clock-divider exponent field (bits 23:20) of the tachometer control register
TachoDivField(ch) == (tacho_ctrl[ch][1] \div 16) % 16

\* every frequency of the ladder at or below the target is at or below f
MaxBelowTarget(cal_freq, target_freq, f) ==
  \A h \in 0 .. 15 : \A l \in 0 .. 255 :
    LadderFreq(cal_freq, h, l) <= target_freq => LadderFreq(cal_freq, h, l) <= f

\* the ladder reaches a frequency at or below the target
TargetInRange(cal_freq, target_freq) == LadderFreq(cal_freq, 15, 255) <= target_freq

\* the last handler programmed channel ch with a nonzero duty value
Programmed(ch) ==
  /\ last.ch = ch
  /\ \/ last.op = "probe" /\ last.ret = 0
     \/ /\ last.op = "set_cur_state" /\ last.ret = 0
        /\ cdev.cooling_levels[cdev.cur_state + 1] # 0

\* ------------------------------------------------- properties
\* C1: whenever aspeed_set_pwm_channel_fan_ctrl has programmed a channel with a nonzero
\* duty and an in-range target, the pair (div_h, div_l) in the control register gives an
\* effective frequency (clk/256)/(2^div_h*(div_l+1)) that is <= the target and is the
\* highest frequency <= the target that any pair of the ladder gives.
C1_MaxFreqBelowTarget ==
  \A ch \in Channels :
    (Programmed(ch) /\ TargetInRange(clk_freq \div 256, pwm_channel[ch].target_freq)) =>
      LET f == LadderFreq(clk_freq \div 256, CtrlDivH(ch), CtrlDivL(ch))
      IN /\ f <= pwm_channel[ch].target_freq
         /\ pwm_channel[ch].pwm_freq = f
         /\ MaxBelowTarget(clk_freq \div 256, pwm_channel[ch].target_freq, f)

\* C2: when the 20-bit value field of the status word that show_rpm used is 0xFFFFF, the
\* RPM it reports is 0, whatever the stored divisor and the source clock.
C2_SentinelIsZero ==
  (last.op = "show_rpm" /\ And32(last.arg, <<15, 65535>>) = <<15, 65535>>) =>
    (last.out = 0 /\ last.ret = 2)

\* C2 witness: a read that ended on the sentinel, with the divisor the probe stored
C2_Witness ==
  /\ last.op = "show_rpm"
  /\ last.arg[1] % 16 = 15 /\ last.arg[2] = 65535
  /\ last.n = 3
  /\ tacho_channel[last.ch].divide = 1
  /\ last.out = 0

\* C3: for the divisor stored for an enabled channel and the source clock, the RPM is
\* non-increasing in the raw count: a <= b implies rpm(a) >= rpm(b), for every value the
\* conversion can return.
C3_RpmMonotone ==
  \A ch \in Channels :
    (probed /\ fan_tach_present[ch]) =>
      \A a \in RawSamples : \A b \in RawSamples :
        a <= b =>
          \A ra \in RpmOutcomes(clk_freq, tacho_channel[ch].divide, W(a)) :
            \A rb \in RpmOutcomes(clk_freq, tacho_channel[ch].divide, W(b)) : ra >= rb

\* C4: a set_cur_state call with state > max_state returns -EINVAL and changes neither the
\* cooling device, nor the stored channel parameters, nor any register.
C4_RejectedStateNoEffect ==
  [][(last'.op = "set_cur_state" /\ last'.arg > cdev.max_state) =>
       /\ last'.ret = -EINVAL
       /\ wlog' = <<>>
       /\ UNCHANGED <<cdev, pwm_channel, tacho_channel, pwm_ctrl, pwm_duty, tacho_ctrl>>]_vars

\* C4 witness: a rejected transition on a cooling device that is not in its first state
C4_Witness ==
  /\ last.op = "set_cur_state"
  /\ last.arg > cdev.max_state
  /\ last.ret = -EINVAL
  /\ cdev.cur_state > 0

\* C5: programming duty 0 (a cooling transition to a level of 0) clears the clock-enable
\* (16) and pin-enable (12) bits of the channel's control register and changes nothing
\* else: every other control bit, the duty-cycle register, the stored frequency and the
\* other channel's registers stay as they were.
C5_ZeroDutyOnlyDisables ==
  [][(/\ last'.op = "set_cur_state" /\ last'.ret = 0
      /\ cdev.cooling_levels[last'.arg + 1] = 0) =>
       LET ch == cdev.pwm_channel
       IN /\ RegBit(pwm_ctrl'[ch], 16) = 0
          /\ RegBit(pwm_ctrl'[ch], 12) = 0
          /\ \A i \in (0 .. 31) \ {12, 16} : RegBit(pwm_ctrl'[ch], i) = RegBit(pwm_ctrl[ch], i)
          /\ pwm_duty' = pwm_duty
          /\ pwm_channel'[ch].pwm_freq = pwm_channel[ch].pwm_freq
          /\ \A c \in Channels \ {ch} : pwm_ctrl'[c] = pwm_ctrl[c]
          /\ tacho_ctrl' = tacho_ctrl]_vars

\* C5 witness: a transition to a zero level has disabled a channel that holds a divider
C5_Witness ==
  /\ last.op = "set_cur_state" /\ last.ret = 0
  /\ cdev.cooling_levels[cdev.cur_state + 1] = 0
  /\ RegBit(pwm_ctrl[last.ch], 16) = 0 /\ RegBit(pwm_ctrl[last.ch], 12) = 0
  /\ CtrlDivH(last.ch) > 0
  /\ DutyFalling(pwm_duty[last.ch]) > 0
  /\ wlog # <<>>

\* C6: a set_cur_state call with state <= max_state returns 0, makes it the current state,
\* stores cooling_levels[state] as the falling point and programs the channel with it,
\* also when the state does not change: a nonzero level writes the duty-cycle register
\* (period 255, falling = level), then the control register, and leaves the channel
\* enabled; a zero level leaves it disabled. get_cur_state returns the current state and
\* get_max_state the number of levels minus one.
C6_InRangeTransitionApplied ==
  [][/\ (last'.op = "set_cur_state" /\ last'.arg <= cdev.max_state) =>
          LET ch == cdev.pwm_channel
              level == cdev.cooling_levels[last'.arg + 1]
          IN /\ last'.ret = 0
             /\ cdev'.cur_state = last'.arg
             /\ pwm_channel'[ch].falling = level
             /\ level # 0 =>
                  /\ Len(wlog') >= 2
                  /\ wlog'[1][1] = "pwm_duty" /\ wlog'[1][2] = ch
                  /\ DutyFalling(wlog'[1][3]) = level /\ DutyPeriod(wlog'[1][3]) = 255
                  /\ wlog'[2][1] = "pwm_ctrl" /\ wlog'[2][2] = ch
                  /\ DutyFalling(pwm_duty'[ch]) = level
                  /\ RegBit(pwm_ctrl'[ch], 16) = 1 /\ RegBit(pwm_ctrl'[ch], 12) = 1
             /\ level = 0 =>
                  RegBit(pwm_ctrl'[ch], 16) = 0 /\ RegBit(pwm_ctrl'[ch], 12) = 0
     /\ last'.op = "get_cur_state" => last'.out = cdev.cur_state
     /\ last'.op = "get_max_state" => last'.out = Len(dt.levels) - 1]_vars

\* C6 witness: an accepted transition to the last state of a two-level table, programmed
\* over a falling point that a user write had set
C6_Witness ==
  /\ last.op = "set_cur_state" /\ last.ret = 0
  /\ last.arg = 1 /\ cdev.max_state = 1 /\ cdev.cur_state = 1
  /\ pwm_channel[last.ch].falling = 200
  /\ Len(wlog) = 3

\* C7: after set_pwm has succeeded with a value v, what show_pwm prints for that channel is
\* v, whatever set_pwm and cooling-state calls came before.
C7_DutyRoundTrip ==
  (last.op = "set_pwm" /\ last.ret > 0) => show_pwm(St, last.ch) = last.arg

\* C7 witness: a successful write of 128 after the cooling device had left its first state
C7_Witness ==
  /\ last.op = "set_pwm" /\ last.ret > 0 /\ last.arg = 128
  /\ cdev.present /\ cdev.cur_state = 1
  /\ show_pwm(St, last.ch) = 128

\* C8: a rejected write changes nothing: set_pwm with a value outside 0..255 returns an
\* error and leaves the stored parameters and the registers alone; an ADC write of a
\* sample rate outside the model's limits returns -EINVAL and leaves the clock rate
\* alone; an ADC write of raw or scale returns -EPERM and changes nothing.
C8_RejectedWritesNoEffect ==
  [][/\ (last'.op = "set_pwm" /\ (last'.arg < 0 \/ last'.arg > 255)) =>
          /\ last'.ret < 0
          /\ wlog' = <<>>
          /\ UNCHANGED <<pwm_channel, tacho_channel, pwm_ctrl, pwm_duty, tacho_ctrl, cdev, adc>>
     /\ (/\ last'.op = "write_raw" /\ last'.out = "SAMP_FREQ"
         /\ \/ last'.arg < model_data(adc.model).min_sampling_rate
            \/ last'.arg > model_data(adc.model).max_sampling_rate) =>
          /\ last'.ret = -EINVAL
          /\ UNCHANGED <<adc, pwm_channel, tacho_channel, pwm_ctrl, pwm_duty, tacho_ctrl, cdev>>
     /\ (last'.op = "write_raw" /\ last'.out \in {"RAW", "SCALE"}) =>
          /\ last'.ret = -EPERM
          /\ UNCHANGED <<adc, pwm_channel, tacho_channel, pwm_ctrl, pwm_duty, tacho_ctrl, cdev>>]_vars

\* C8 witness: a sample rate above the limit was rejected after an accepted rate
C8_Witness ==
  /\ last.op = "write_raw" /\ last.out = "SAMP_FREQ"
  /\ last.arg > model_data(adc.model).max_sampling_rate
  /\ last.ret = -EINVAL
  /\ adc.rate = 10000 * ASPEED_CLOCKS_PER_SAMPLE

\* C9 as stated: at 24 MHz and a 25 kHz target the search ends with div_h = 0 and div_l
\* about 2, and the stored frequency is <= 25000 and within one ladder step of it.
C9_Original ==
  \A ch \in Channels :
    (clk_freq = 24000000 /\ pwm_channel[ch].target_freq = 25000 /\ Programmed(ch)) =>
      /\ CtrlDivH(ch) = 0
      /\ CtrlDivL(ch) \in 1 .. 3
      /\ pwm_channel[ch].pwm_freq <= 25000
      /\ MaxBelowTarget(clk_freq \div 256, 25000, pwm_channel[ch].pwm_freq)

\* C9 amended: at 24 MHz and a 25 kHz target the search ends with div_h = 2 and div_l = 0
\* (divide by 4); the stored frequency is 23437, which is <= 25000 and the highest
\* frequency of the ladder at or below 25000.
C9_Amended ==
  \A ch \in Channels :
    (clk_freq = 24000000 /\ pwm_channel[ch].target_freq = 25000 /\ Programmed(ch)) =>
      /\ CtrlDivH(ch) = 2
      /\ CtrlDivL(ch) = 0
      /\ pwm_channel[ch].pwm_freq = 23437
      /\ pwm_channel[ch].pwm_freq <= 25000
      /\ MaxBelowTarget(clk_freq \div 256, 25000, pwm_channel[ch].pwm_freq)

\* C9 witness: the probe has programmed a channel at 24 MHz
C9_Witness ==
  /\ clk_freq = 24000000
  /\ last.op = "probe" /\ last.ret = 0
  /\ pwm_channel[last.ch].target_freq = 25000
  /\ pwm_channel[last.ch].pwm_freq > 0

\* C10 as stated: with minimum RPM 2900 at 24 MHz, target_div is 23 and enabling a channel
\* selects exponent 3 and divisor 64.
C10_Original ==
  \A ch \in Channels :
    (clk_freq = 24000000 /\ dt.min_rpm = 2900 /\ probed /\ fan_tach_present[ch]) =>
      /\ TargetDiv(clk_freq, tacho_channel[ch].min_rpm) = 23
      /\ TachoDivField(ch) = 3
      /\ tacho_channel[ch].divide = 64

\* C10 amended: with minimum RPM 2900 at 24 MHz, target_div = (24000000*60/2900*2)/2^20
\* is 0 (993102/1048576), so enabling a channel takes the target_div = 0 branch: exponent
\* 0 and divisor 1.
C10_Amended ==
  \A ch \in Channels :
    (clk_freq = 24000000 /\ dt.min_rpm = 2900 /\ probed /\ fan_tach_present[ch]) =>
      /\ tacho_channel[ch].min_rpm = 2900
      /\ TargetDiv(clk_freq, tacho_channel[ch].min_rpm) = 0
      /\ TachoDivField(ch) = 0
      /\ RegBit(tacho_ctrl[ch], 28) = 1
      /\ tacho_channel[ch].divide = 1

\* C10 witness: the probe has enabled a tachometer channel with minimum RPM 2900 at 24 MHz
C10_Witness ==
  /\ clk_freq = 24000000 /\ dt.min_rpm = 2900
  /\ last.op = "probe" /\ probed
  /\ \E ch \in Channels : fan_tach_present[ch] /\ RegBit(tacho_ctrl[ch], 28) = 1

\* C11: every handler that programs a channel with a nonzero duty writes, in this order,
\* the duty-cycle register, the control register (enable bits still clear), and then the
\* control register with clock-enable and pin-enable set; the enable write is the third
\* write, made when both registers hold the new values, and no other PWM register write
\* follows it.
C11_DutyCtrlEnableOrder ==
  [][\A ch \in Channels :
       Programmed(ch)' =>
         /\ Len(wlog') >= 3
         /\ wlog'[1][1] = "pwm_duty" /\ wlog'[1][2] = ch
         /\ wlog'[2][1] = "pwm_ctrl" /\ wlog'[2][2] = ch
         /\ wlog'[3][1] = "pwm_ctrl" /\ wlog'[3][2] = ch
         /\ DutyFalling(wlog'[1][3]) = pwm_channel'[ch].falling
         /\ DutyPeriod(wlog'[1][3]) = PWM_PERIOD_MAX
         /\ And32(wlog'[2][3], EnableBits) = <<0, 0>>
         /\ wlog'[3][3] = Or32(wlog'[2][3], EnableBits)
         /\ pwm_duty'[ch] = wlog'[1][3]
         /\ pwm_ctrl'[ch] = wlog'[3][3]
         /\ \A i \in 4 .. Len(wlog') : wlog'[i][1] = "tacho_ctrl"]_vars

\* C11 witness: a cooling transition to a nonzero level has made its three writes
C11_Witness ==
  /\ last.op = "set_cur_state" /\ last.ret = 0
  /\ cdev.cooling_levels[cdev.cur_state + 1] # 0
  /\ Len(wlog) = 3
  /\ wlog[1][1] = "pwm_duty" /\ wlog[3][1] = "pwm_ctrl"
  /\ And32(wlog[3][3], EnableBits) = EnableBits

C13_TachoExponentInRange ==
  \A ch \in Channels :
    (probed /\ fan_tach_present[ch]) =>
      /\ TachoDivField(ch) = TachoDivider(clk_freq, tacho_channel[ch].min_rpm)[1]
      /\ TachoDivField(ch) \in 0 .. 11

\* C13 witness: a channel enabled with the largest exponent a 32-bit target_div asks for
C13_Witness ==
  \E ch \in Channels :
    /\ probed /\ fan_tach_present[ch]
    /\ TargetDiv(clk_freq, tacho_channel[ch].min_rpm) > 1024
    /\ TachoDivField(ch) = 6

\* the clock-divider exponent field (bits 23:20) of a tachometer control word
TachoDivOf(w) == (w[1] \div 16) % 16

\* the last handler enabled tachometer channel ch
TachEnabled(ch) ==
  \/ last.op = "probe" /\ last.ret = 0 /\ fan_tach_present[ch]
  \/ last.op = "tach_enable" /\ last.ch = ch /\ last.arg = 1

\* C14: every enable of a tachometer channel recomputes the divider from the channel's
\* minimum RPM: exponent 0 and divisor 1 when target_div is 0, else the first exponent i
\* in 0..11 with 4^i > target_div; the stored divisor is 4^e for the exponent e in the
\* control register; the RPM conversion uses the stored divisor; a disable clears only
\* the tachometer-enable bit (28) and leaves the stored divisor and all else unchanged.
C14_TachoDividerStored ==
  [][/\ \A ch \in Channels :
          TachEnabled(ch)' =>
            LET td == TargetDiv(clk_freq, tacho_channel'[ch].min_rpm)
                e == TachoDivOf(tacho_ctrl'[ch])
            IN /\ RegBit(tacho_ctrl'[ch], 28) = 1
               /\ td = 0 => e = 0
               /\ td # 0 => /\ e \in 0 .. 11
                            /\ 4 ^ e > td
                            /\ \A j \in 0 .. (e - 1) : 4 ^ j <= td
               /\ tacho_channel'[ch].divide = 4 ^ e
     /\ last'.op = "show_rpm" =>
          /\ tacho_channel'[last'.ch].divide = 4 ^ (TachoDivOf(tacho_ctrl'[last'.ch]))
          /\ last'.out \in RpmOutcomes(clk_freq, 4 ^ (TachoDivOf(tacho_ctrl'[last'.ch])), last'.arg)
     /\ (last'.op = "tach_enable" /\ last'.arg = 0) =>
          /\ RegBit(tacho_ctrl'[last'.ch], 28) = 0
          /\ \A i \in (0 .. 31) \ {28} :
               RegBit(tacho_ctrl'[last'.ch], i) = RegBit(tacho_ctrl[last'.ch], i)
          /\ \A c \in Channels \ {last'.ch} : tacho_ctrl'[c] = tacho_ctrl[c]
          /\ tacho_channel' = tacho_channel
          /\ pwm_ctrl' = pwm_ctrl /\ pwm_duty' = pwm_duty /\ pwm_channel' = pwm_channel
    ]_vars

\* C14 witness: a channel with a nonzero target_div was disabled, keeping its divisor,
\* and its RPM was then read with that divisor
C14_Witness ==
  /\ last.op = "show_rpm"
  /\ RegBit(tacho_ctrl[last.ch], 28) = 0
  /\ TargetDiv(clk_freq, tacho_channel[last.ch].min_rpm) # 0
  /\ tacho_channel[last.ch].divide = 4 ^ TachoDivField(last.ch)
  /\ tacho_channel[last.ch].divide > 1
  /\ last.out > 0

\* the raw count (bits 19:0) of a status word
RawOf(w) == (w[1] % 16) * HALF + w[2]

\* C15: for every raw count other than 0xFFFFF the RPM that show_rpm reports is exactly
\* (clk / ((raw + 1) * divisor * 2)) * 60 in the integers, the division made first,
\* with the stored divisor of the channel.
C15_RpmExactFormula ==
  (last.op = "show_rpm" /\ RawOf(last.arg) # 1048575) =>
    LET q == ((clk_freq \div (RawOf(last.arg) + 1)) \div tacho_channel[last.ch].divide) \div 2
        rpm == WMulSmall(W(q), 60)
    IN /\ rpm[1] < 32768
       /\ last.out = rpm[1] * HALF + rpm[2]

\* C16: a read of the RPM makes 1 to 3 reads of the status register, stops at the first
\* read whose full-measurement flag is set, computes the result from the last word read
\* also when no read had the flag, and always returns a result: no error code, no trap.
C16_PollBoundedNoError ==
  last.op = "show_rpm" =>
    /\ Len(rlog) \in 1 .. RETRIES
    /\ last.n = Len(rlog)
    /\ \A i \in 1 .. (Len(rlog) - 1) : And32(TACHO_FULL_MEASUREMENT, rlog[i]) = <<0, 0>>
    /\ Len(rlog) < RETRIES => And32(TACHO_FULL_MEASUREMENT, rlog[Len(rlog)]) # <<0, 0>>
    /\ last.arg = rlog[Len(rlog)]
    /\ last.out \in RpmOutcomes(clk_freq, tacho_channel[last.ch].divide, rlog[Len(rlog)])
    /\ ~RpmDivByZero(tacho_channel[last.ch].divide, last.arg)
    /\ last.ret > 0

\* the target frequency the device description gives for the fan node
DtTargetFreq == IF Len(dt.target_pwm) = 0 THEN DEFAULT_TARGET_PWM_FREQ ELSE dt.target_pwm[1]

\* C17: once the probe has created the fan node's PWM channel, the target frequency of
\* that channel is the node's "aspeed,target_pwm" (25000 when the property is absent) and
\* the divider pair in the control register is the one the search finds for that target.
C17_DtTargetUsed ==
  (probed /\ pwm_present[dt.reg]) =>
    /\ pwm_channel[dt.reg].target_freq = DtTargetFreq
    /\ Programmed(dt.reg) =>
         /\ <<CtrlDivH(dt.reg), CtrlDivL(dt.reg)>> = PwmDividerSearch(clk_freq, DtTargetFreq)
         /\ pwm_channel[dt.reg].pwm_freq =
              LadderFreq(clk_freq \div (PWM_PERIOD_MAX + 1), CtrlDivH(dt.reg), CtrlDivL(dt.reg))

\* the enable bits are set exactly when the falling point is nonzero, and a nonzero
\* falling point is the one in the duty-cycle register
Coherent(o) ==
  /\ o.enable = (IF o.falling # 0 THEN EnableBits ELSE <<0, 0>>)
  /\ o.falling # 0 => o.duty = o.falling

\* C18: nothing serializes set_pwm and aspeed_pwm_cz_set_cur_state on a channel: while
\* both calls are between their first and last step, each of them can take its next
\* step (neither handler waits for the other), so their loads and stores of the falling
\* point and their register accesses interleave; the falling point they leave is the one
\* either call wrote, and an outcome that is the outcome of neither serial order is one
\* that is not coherent.
C18_NoSerialization ==
  /\ (calls.upc \notin {"idle", "done"} /\ calls.tpc \notin {"idle", "done"}) =>
       /\ set_pwm_ready(calls)
       /\ set_cur_state_ready(calls)
       /\ calls.ser # {}
       /\ \A o \in calls.ser :
            o.falling \in {calls.val, cdev.cooling_levels[calls.state + 1]}
  /\ (calls.upc = "done" /\ calls.tpc = "done") =>
       LET o == Outcome(St, cdev.pwm_channel)
       IN /\ o.falling \in {calls.val, cdev.cooling_levels[calls.state + 1]}
          /\ o \notin calls.ser => ~Coherent(o)

\* C18 witness: both calls have returned and the state they leave (stored falling point,
\* falling field of the duty-cycle register, enable bits) is the outcome of neither
\* serial order
C18_Witness ==
  /\ calls.upc = "done" /\ calls.tpc = "done"
  /\ Outcome(St, cdev.pwm_channel) \notin calls.ser

\* ------------------------------------------------- C19
Acquired(log) == SelectSeq(log, LAMBDA e : e \in AdcResources)
Released(log) == SelectSeq(log, LAMBDA e : Releases(e) # "none")
Reverse(s) == [i \in 1 .. Len(s) |-> s[Len(s) + 1 - i]]

\* the releases of a log undo its acquisitions, all of them, last acquired first,
\* and none before the last acquisition
ReleasedInReverse(log) ==
  /\ [i \in 1 .. Len(Released(log)) |-> Releases(Released(log)[i])] = Reverse(Acquired(log))
  /\ \A i, j \in 1 .. Len(log) :
       (log[i] \in AdcResources /\ Releases(log[j]) # "none") => i < j

\* C19: when the initialization poll of aspeed_adc_probe times out the probe
\* returns -ETIMEDOUT, the IIO device is never registered, and the reset is
\* asserted, then the scaler divider and then the prescaler divider are
\* unregistered; every failing probe releases exactly what it acquired, in
\* reverse order of acquisition.
C19_ProbeUnwindsInReverse ==
  last.op = "adc_probe" =>
    /\ last.out = "poll" =>
         /\ last.ret = -ETIMEDOUT
         /\ ~adc.registered
         /\ \A i \in 1 .. Len(adc.log) : adc.log[i] # "iio_register"
         /\ Acquired(adc.log) = <<"register_prescaler", "register_scaler", "reset_deassert">>
         /\ Released(adc.log) = <<"reset_assert", "unregister_scaler", "unregister_prescaler">>
    /\ last.ret # 0 =>
         /\ ~adc.registered
         /\ adc.held = <<>>
         /\ ReleasedInReverse(adc.log)
    /\ last.ret = 0 => adc.registered /\ Released(adc.log) = <<>>

\* a probe whose initialization poll timed out, the three releases done
C19_Witness ==
  /\ last.op = "adc_probe" /\ last.out = "poll" /\ last.ret = -ETIMEDOUT
  /\ Len(adc.log) = 7
  /\ adc.log[5] = "reset_assert"

\* ------------------------------------------------- C20
\* both enable bits of the channel's control register are set
PwmEnabled(ch) == And32(pwm_ctrl[ch], EnableBits) = EnableBits

\* C20: on a created PWM channel, after any sequence of set_pwm calls and cooling-state
\* transitions that run one after the other, the clock-enable and pin-enable bits are
\* both set exactly when the stored falling point is nonzero, and when it is nonzero the
\* falling field (bits 15:8) of the duty register equals it and the period field is 255.
C20_EnableIffFalling ==
  \A ch \in Channels :
    pwm_present[ch] =>
      /\ PwmEnabled(ch) <=> pwm_channel[ch].falling # 0
      /\ pwm_channel[ch].falling # 0 =>
           /\ DutyFalling(pwm_duty[ch]) = pwm_channel[ch].falling
           /\ DutyPeriod(pwm_duty[ch]) = PWM_PERIOD_MAX

\* set_pwm(128) on a channel that was off: the duty field updated, then the channel
\* switched on again
C20_Witness ==
  /\ last.op = "set_pwm" /\ last.arg = 128 /\ last.ret > 0
  /\ Len(wlog) = 2
  /\ wlog[1][1] = "pwm_duty" /\ wlog[2][1] = "pwm_ctrl"
  /\ PwmEnabled(last.ch)
  /\ pwm_channel[last.ch].falling = 128

\* ------------------------------------------------- C21
\* tach_div = (raw_data + 1) * divide * 2 as the u32 arithmetic of
\* aspeed_get_fan_tach_ch_rpm leaves it
TachDivWord(raw, divide) == U32(WMulSmall(MulU32(U32(WAdd(W(raw), <<0, 1>>)), W(divide)), 2))

\* the product (raw + 1) * divide * 2 is below 2^32
TachDivFits(raw, divide) == raw + 1 <= 2147483647 \div divide

\* C21: for every raw count in 0 .. 0xFFFFE that show_rpm converts with the divisor stored
\* by aspeed_set_fan_tach_ch_enable, the denominator (raw + 1) * divisor * 2 computed in
\* 32-bit unsigned arithmetic is nonzero and is the product in the integers (no wrap
\* modulo 2^32).
C21_DenominatorNeverWraps ==
  (last.op = "show_rpm" /\ RawOf(last.arg) <= 1048574) =>
    /\ TachDivWord(RawOf(last.arg), tacho_channel[last.ch].divide) # <<0, 0>>
    /\ TachDivFits(RawOf(last.arg), tacho_channel[last.ch].divide)

\* ------------------------------------------------- C22
\* C22: every channel index taken from the device description stays inside the table it
\* indexes: for a fan node on PWM channel 0..15 with cooling levels the cooling device
\* is stored at an index inside the cooling-device table, and the PWM and tachometer
\* channels marked present and programmed are below 16.
C22_IndicesInsideTables ==
  (last.op = "probe" /\ dt.reg \in Table) =>
    /\ cdev.present => cdev.index \in 0 .. (NUM_CDEV - 1)
    /\ \A c \in DOMAIN pwm_present : pwm_present[c] => c = dt.reg /\ c < NUM_CHANNELS
    /\ \A c \in DOMAIN fan_tach_present : fan_tach_present[c] => c < NUM_CHANNELS
    /\ \A i \in 1 .. Len(wlog) : wlog[i][2] < NUM_CHANNELS

====
